---- MODULE Spec2Model ----
(***************************************************************************)
(* Model of the skazka.mobi capture tool (parser.js and its second         *)
(* variant with the asset map and the DOM snapshot sampler).               *)
(*                                                                         *)
(* Five state machines share this module:                                    *)
(*   SpecExt       getExtension applied to a response                      *)
(*   SpecCapture   the response capturer, the asset map and the shutdown   *)
(*                 sequence                                                *)
(*   SpecLog       the HTTP / WebSocket event logger                       *)
(*   SpecSnap      the in-page snapshot sampler and the host saveSnapshot  *)
(*   SpecTraverse  traverse applied to a DOM tree                          *)
(*                                                                         *)
(* JavaScript strings that the code takes apart (includes, extname,        *)
(* charCodeAt) are sequences of UTF-16 code units; Code gives the code     *)
(* units of the literals used here.                                        *)
(***************************************************************************)
EXTENDS Integers, Sequences, FiniteSets, TLC

VARIABLES
  \* --- getExtension (SpecExt)
  extResponse,    \* the response handed to getExtension
  extType,        \* its category argument, 'image' or 'script'
  extResult,      \* what getExtension returned, None before the call
  \* --- capturer, logger, lifecycle (SpecCapture, SpecLog)
  phase,          \* position of the main async function
  now,            \* the wall clock read by new Date()
  httpLogStream,  \* records written to http_log.jsonl, in order
  wsLogStream,    \* records written to websocket_log.jsonl, in order
  sockets,        \* WebSockets whose frame handlers are registered
  pending,        \* response handlers suspended at `await response.body()`
  files,          \* dir -> names of the files in it
  assetMap,       \* the in-memory object url -> filename
  assetsMapFile,  \* contents of assets_map.json, None while not written
  mapWrites,      \* number of writes of assets_map.json
  events,         \* history: the events the driver delivered, in order
  saves,          \* history: the saveFile calls that ran to their end
  failed,         \* history: delivery numbers of the saveFile calls that threw
  \* --- snapshot sampler (SpecSnap)
  document,       \* the live DOM of the page, None while it has no body
  lastHash,       \* the sampler's closure variable
  channel,        \* window.saveSnapshot calls on their way from page to host
  clock,          \* milliseconds from the sampler's start to its latest timer tick
  snapshots,      \* the snapshots directory: filename -> content
  snapshotSaved,  \* number of 'Saved Snapshot' lines on the console
  cycles,         \* timer callbacks run so far
  lastSampled,    \* history: the string of the latest cycle that had a tree
  \* --- traverse (SpecTraverse)
  travDoc,        \* the DOM handed to traverse
  travTree        \* what traverse(document.body) returned, None before the call

extVars  == <<extResponse, extType, extResult>>
netVars  == <<phase, now, httpLogStream, wsLogStream, sockets, pending, files,
              assetMap, assetsMapFile, mapWrites, events, saves, failed>>
snapVars == <<document, lastHash, channel, clock, snapshots, snapshotSaved, cycles,
              lastSampled>>
travVars == <<travDoc, travTree>>
vars     == <<extVars, netVars, snapVars, travVars>>

\* a missing string (an absent header)
NoValue == "<none>"

\* an optional value that is not a string: None, or Some(x)
None    == <<>>
Some(x) == <<x>>

(***************************************************************************)
(* Strings                                                                 *)
(***************************************************************************)
Code(s) ==
  CASE s = "" -> <<>>
    [] s = "image/png" -> <<105, 109, 97, 103, 101, 47, 112, 110, 103>>
    [] s = "image/jpeg" -> <<105, 109, 97, 103, 101, 47, 106, 112, 101, 103>>
    [] s = "image/webp" -> <<105, 109, 97, 103, 101, 47, 119, 101, 98, 112>>
    [] s = "image/gif" -> <<105, 109, 97, 103, 101, 47, 103, 105, 102>>
    [] s = "javascript" -> <<106, 97, 118, 97, 115, 99, 114, 105, 112, 116>>
    [] s = "application/x-javascript" -> <<97, 112, 112, 108, 105, 99, 97, 116, 105, 111, 110, 47, 120, 45, 106, 97, 118, 97, 115, 99, 114, 105, 112, 116>>
    [] s = ".png" -> <<46, 112, 110, 103>>
    [] s = ".jpg" -> <<46, 106, 112, 103>>
    [] s = ".webp" -> <<46, 119, 101, 98, 112>>
    [] s = ".gif" -> <<46, 103, 105, 102>>
    [] s = ".js" -> <<46, 106, 115>>
    [] s = "application/javascript" -> <<97, 112, 112, 108, 105, 99, 97, 116, 105, 111, 110, 47, 106, 97, 118, 97, 115, 99, 114, 105, 112, 116>>
    [] s = "text/javascript; charset=utf-8" -> <<116, 101, 120, 116, 47, 106, 97, 118, 97, 115, 99, 114, 105, 112, 116, 59, 32, 99, 104, 97, 114, 115, 101, 116, 61, 117, 116, 102, 45, 56>>
    [] s = "text/html" -> <<116, 101, 120, 116, 47, 104, 116, 109, 108>>
    [] s = "image/png; charset=binary" -> <<105, 109, 97, 103, 101, 47, 112, 110, 103, 59, 32, 99, 104, 97, 114, 115, 101, 116, 61, 98, 105, 110, 97, 114, 121>>
    [] s = "/a.png" -> <<47, 97, 46, 112, 110, 103>>
    [] s = "/b.png" -> <<47, 98, 46, 112, 110, 103>>
    [] s = "/b.jpg" -> <<47, 98, 46, 106, 112, 103>>
    [] s = "/c" -> <<47, 99>>
    [] s = "/d.min.js" -> <<47, 100, 46, 109, 105, 110, 46, 106, 115>>
    [] s = "/e." -> <<47, 101, 46>>
    [] s = "/.hidden" -> <<47, 46, 104, 105, 100, 100, 101, 110>>
    [] s = "/dir.v2/f" -> <<47, 100, 105, 114, 46, 118, 50, 47, 102>>
    [] s = "/img.php" -> <<47, 105, 109, 103, 46, 112, 104, 112>>
    [] s = "/s.js" -> <<47, 115, 46, 106, 115>>
    [] s = "?v=1.2" -> <<63, 118, 61, 49, 46, 50>>
    [] s = "-" -> <<45>>
    [] s = "/" -> <<47>>
    [] s = "." -> <<46>>
    [] s = ".." -> <<46, 46>>
    [] s = ".php" -> <<46, 112, 104, 112>>
    [] s = "BODY" -> <<66, 79, 68, 89>>
    [] s = "DIV" -> <<68, 73, 86>>
    [] s = "SPAN" -> <<83, 80, 65, 78>>
    [] s = "SCRIPT" -> <<83, 67, 82, 73, 80, 84>>
    [] s = "STYLE" -> <<83, 84, 89, 76, 69>>
    [] s = "NOSCRIPT" -> <<78, 79, 83, 67, 82, 73, 80, 84>>
    [] s = "IFRAME" -> <<73, 70, 82, 65, 77, 69>>
    [] s = "LINK" -> <<76, 73, 78, 75>>
    [] s = "META" -> <<77, 69, 84, 65>>
    [] s = "HEAD" -> <<72, 69, 65, 68>>
    [] s = "TITLE" -> <<84, 73, 84, 76, 69>>
    [] s = "style" -> <<115, 116, 121, 108, 101>>
    [] s = "Aa" -> <<65, 97>>
    [] s = "BB" -> <<66, 66>>
    [] s = "C" -> <<67>>
    [] s = "block" -> <<98, 108, 111, 99, 107>>
    [] s = "none" -> <<110, 111, 110, 101>>
    [] s = "flex" -> <<102, 108, 101, 120>>
    [] s = "0" -> <<48>>
    [] s = "1" -> <<49>>
    [] s = "{\"tagName\":" -> <<123, 34, 116, 97, 103, 78, 97, 109, 101, 34, 58>>
    [] s = ",\"id\":" -> <<44, 34, 105, 100, 34, 58>>
    [] s = ",\"className\":" -> <<44, 34, 99, 108, 97, 115, 115, 78, 97, 109, 101, 34, 58>>
    [] s = ",\"textContent\":null,\"attributes\":{" -> <<44, 34, 116, 101, 120, 116, 67, 111, 110, 116, 101, 110, 116, 34, 58, 110, 117, 108, 108, 44, 34, 97, 116, 116, 114, 105, 98, 117, 116, 101, 115, 34, 58, 123>>
    [] s = "\"id\":" -> <<34, 105, 100, 34, 58>>
    [] s = "},\"styles\":{\"display\":" -> <<125, 44, 34, 115, 116, 121, 108, 101, 115, 34, 58, 123, 34, 100, 105, 115, 112, 108, 97, 121, 34, 58>>
    [] s = ",\"opacity\":" -> <<44, 34, 111, 112, 97, 99, 105, 116, 121, 34, 58>>
    [] s = "},\"children\":[" -> <<125, 44, 34, 99, 104, 105, 108, 100, 114, 101, 110, 34, 58, 91>>
    [] s = "]}" -> <<93, 125>>
    [] s = "," -> <<44>>
    [] s = "\"" -> <<34>>

\* String.prototype.includes: needle occurs in hay as a contiguous substring
Includes(hay, needle) ==
  \E i \in 0..(Len(hay) - Len(needle)) :
    SubSeq(hay, i + 1, i + Len(needle)) = needle

\* index of the last occurrence of code unit c in s, 0 when there is none
LastIndexOf(s, c) ==
  IF \E i \in 1..Len(s) : s[i] = c
    THEN CHOOSE i \in 1..Len(s) : s[i] = c /\ \A j \in (i + 1)..Len(s) : s[j] # c
    ELSE 0

\* path.extname (posix): from the last '.' of the last path segment to its end;
\* empty when the segment has no '.', starts with its only '.', or is '..'
extname(p) ==
  LET base == SubSeq(p, LastIndexOf(p, Code("/")[1]) + 1, Len(p))
      d    == LastIndexOf(base, Code(".")[1])
  IN  IF d = 0 \/ d = 1 \/ base = Code("..")
        THEN <<>>
        ELSE SubSeq(base, d, Len(base))

(***************************************************************************)
(* getExtension                                                            *)
(***************************************************************************)
\* response.headers()['content-type'] || ''   (a missing header is NoValue)
ContentTypeOf(response) ==
  IF response.contentType = NoValue THEN Code("") ELSE Code(response.contentType)

\* new URL(response.url()).pathname
Pathname(url) == Code(url.pathname)

\* mutant: the URL suffix is consulted before the content-type
getExtension_urlFirst(response, type) ==
  LET contentType == ContentTypeOf(response)
      urlExt      == extname(Pathname(response.url))
  IN  IF urlExt # <<>> THEN urlExt
      ELSE IF Includes(contentType, Code("image/png")) THEN Code(".png")
      ELSE IF Includes(contentType, Code("image/jpeg")) THEN Code(".jpg")
      ELSE IF Includes(contentType, Code("image/webp")) THEN Code(".webp")
      ELSE IF Includes(contentType, Code("image/gif")) THEN Code(".gif")
      ELSE IF Includes(contentType, Code("javascript"))
              \/ Includes(contentType, Code("application/x-javascript")) THEN Code(".js")
      ELSE IF type = "image" THEN Code(".png") ELSE Code(".js")

getExtension(response, type) ==
  LET contentType == ContentTypeOf(response)
      urlExt      == extname(Pathname(response.url))
  IN  IF Includes(contentType, Code("image/png")) THEN Code(".png")
      ELSE IF Includes(contentType, Code("image/jpeg")) THEN Code(".jpg")
      ELSE IF Includes(contentType, Code("image/webp")) THEN Code(".webp")
      ELSE IF Includes(contentType, Code("image/gif")) THEN Code(".gif")
      ELSE IF Includes(contentType, Code("javascript"))
              \/ Includes(contentType, Code("application/x-javascript")) THEN Code(".js")
      ELSE IF urlExt # <<>> THEN urlExt
      ELSE IF type = "image" THEN Code(".png") ELSE Code(".js")

(***************************************************************************)
(* SpecExt: getExtension over a bounded set of responses                   *)
(***************************************************************************)
ExtContentTypes ==
  { NoValue, "image/png", "image/jpeg", "image/webp", "image/gif",
    "application/javascript", "application/x-javascript",
    "text/javascript; charset=utf-8", "image/png; charset=binary", "text/html" }

ExtPathnames ==
  { "/a.png", "/b.jpg", "/c", "/d.min.js", "/e.", "/.hidden", "/dir.v2/f", "/img.php" }

ExtSearches == { "", "?v=1.2" }

ExtUrls == [ pathname : ExtPathnames, search : ExtSearches ]

NetIdle ==
  /\ phase = "idle" /\ now = 0 /\ httpLogStream = <<>> /\ wsLogStream = <<>>
  /\ sockets = {} /\ pending = {} /\ files = <<>> /\ assetMap = <<>>
  /\ assetsMapFile = None /\ mapWrites = 0 /\ events = <<>> /\ saves = {}
  /\ failed = {}

SnapIdle ==
  /\ document = None /\ lastHash = <<>> /\ channel = <<>> /\ clock = 0
  /\ snapshots = <<>> /\ snapshotSaved = 0 /\ cycles = 0 /\ lastSampled = None

TravIdle == travDoc = None /\ travTree = None

ExtIdle == extResponse = None /\ extType = NoValue /\ extResult = None

ExtInit ==
  /\ extResponse \in [ contentType : ExtContentTypes, url : ExtUrls ]
  /\ extType \in { "image", "script" }
  /\ extResult = None
  /\ NetIdle /\ SnapIdle /\ TravIdle

\* const ext = getExtension(response, type)
CallGetExtension ==
  /\ extResult = None
  /\ extResult' = Some(getExtension(extResponse, extType))
  /\ UNCHANGED <<extResponse, extType, netVars, snapVars, travVars>>

ExtNext == CallGetExtension

SpecExt == ExtInit /\ [][ExtNext]_vars

\* The extension table of the claim, over the content-types of ExtContentTypes
KnownContentTypeExt(ct) ==
  CASE ct \in { "image/png", "image/png; charset=binary" } -> ".png"
    [] ct = "image/jpeg" -> ".jpg"
    [] ct = "image/webp" -> ".webp"
    [] ct = "image/gif"  -> ".gif"
    [] ct \in { "application/javascript", "application/x-javascript",
                "text/javascript; charset=utf-8" } -> ".js"
    [] OTHER -> NoValue

\* The extension of each path of ExtPathnames, as path.extname documents it
UrlPathExt(pathname) ==
  CASE pathname = "/a.png"    -> ".png"
    [] pathname = "/b.jpg"    -> ".jpg"
    [] pathname = "/d.min.js" -> ".js"
    [] pathname = "/e."       -> "."
    [] pathname = "/img.php"  -> ".php"
    [] OTHER -> ""

\* C6: getExtension returns the extension of a known content-type whatever the
\* URL; with no known content-type, the extension of the URL's path when it has
\* one; with neither, .png for an image and .js for a script.
C6_ExtensionPriority ==
  extResult # None =>
    LET byType == KnownContentTypeExt(extResponse.contentType)
        byUrl  == UrlPathExt(extResponse.url.pathname)
    IN  /\ byType # NoValue => extResult = Some(Code(byType))
        /\ byType = NoValue /\ byUrl # "" => extResult = Some(Code(byUrl))
        /\ byType = NoValue /\ byUrl = "" =>
             extResult = Some(Code(IF extType = "image" THEN ".png" ELSE ".js"))

\* C6 witness: content-type image/webp with a URL ending in .jpg gave .webp
C6_Witness ==
  /\ extResponse.contentType = "image/webp"
  /\ extResponse.url.pathname = "/b.jpg"
  /\ extResult = Some(Code(".webp"))

(***************************************************************************)
(* The DOM and traverse                                                    *)
(*                                                                         *)
(* A document is the sequence of the elements under document.body, body    *)
(* first: element i is [parent, tagName, id, display, opacity], parent     *)
(* being the index of its parent element (0 for body) and always smaller   *)
(* than i; el.children lists the elements with parent i by index.  display *)
(* and opacity are the values window.getComputedStyle(el) reports.  The    *)
(* elements carry no text nodes, no class and no attribute but id.         *)
(***************************************************************************)
\* el.children
ChildrenOf(doc, i) == { j \in 1..Len(doc) : doc[j].parent = i }

\* the members of a finite set of numbers, ascending
RECURSIVE Ascending(_)
Ascending(S) ==
  IF S = {} THEN <<>>
  ELSE LET m == CHOOSE x \in S : \A y \in S : x <= y
       IN  <<m>> \o Ascending(S \ {m})

\* ['SCRIPT', 'STYLE', ...].includes(el.tagName)
IgnoredTags ==
  { "SCRIPT", "STYLE", "NOSCRIPT", "IFRAME", "LINK", "META", "HEAD", "TITLE" }

IgnoredTag(el) == el.tagName \in IgnoredTags

\* mutant: elements made invisible by opacity are dropped too
Hidden_opacity(el) == el.display = "none" \/ el.opacity = "0"

\* style.display === 'none'
Hidden(el) == el.display = "none"

\* getComputedStyles(el): of the properties it copies the model keeps the two
\* the elements of the model differ in
getComputedStyles(el) == [ display |-> el.display, opacity |-> el.opacity ]

\* traverse(el): None for null, Some(node) for a node.  node.el is the index of
\* the element the node was built from; it is not a property of the JavaScript
\* object and Stringify does not print it.
RECURSIVE traverse(_, _)
RECURSIVE traverseAll(_, _)
traverse(doc, i) ==
  IF IgnoredTag(doc[i]) THEN None
  ELSE IF Hidden(doc[i]) THEN None
  ELSE Some([ el          |-> i,
              tagName     |-> doc[i].tagName,
              id          |-> doc[i].id,
              className   |-> "",
              textContent |-> NoValue,
              attributes  |-> IF doc[i].id = "" THEN <<>> ELSE <<doc[i].id>>,
              styles      |-> getComputedStyles(doc[i]),
              children    |-> traverseAll(doc, Ascending(ChildrenOf(doc, i))) ])

\* the loop over el.children: the non-null results, in order
traverseAll(doc, elems) ==
  IF elems = <<>> THEN <<>>
  ELSE traverse(doc, Head(elems)) \o traverseAll(doc, Tail(elems))

(***************************************************************************)
(* JSON.stringify(tree) and simpleHash                                     *)
(***************************************************************************)
Quoted(s) == Code("\"") \o Code(s) \o Code("\"")

RECURSIVE Stringify(_)
RECURSIVE StringifyAll(_)
Stringify(node) ==
  Code("{\"tagName\":") \o Quoted(node.tagName)
    \o Code(",\"id\":") \o Quoted(node.id)
    \o Code(",\"className\":") \o Quoted(node.className)
    \o Code(",\"textContent\":null,\"attributes\":{")
    \o (IF node.attributes = <<>> THEN <<>>
        ELSE Code("\"id\":") \o Quoted(node.attributes[1]))
    \o Code("},\"styles\":{\"display\":") \o Quoted(node.styles.display)
    \o Code(",\"opacity\":") \o Quoted(node.styles.opacity)
    \o Code("},\"children\":[") \o StringifyAll(node.children) \o Code("]}")

StringifyAll(nodes) ==
  IF nodes = <<>> THEN <<>>
  ELSE Stringify(Head(nodes))
         \o (IF Tail(nodes) = <<>> THEN <<>> ELSE Code(",") \o StringifyAll(Tail(nodes)))

\* A 32-bit integer is kept as its two 16-bit halves [hi, lo] (two's complement).
Half == 65536

\* one round of the loop: hash = ((hash << 5) - hash) + char; hash = hash & hash
HashStep(h, char) ==
  LET lo == h.lo * 31 + char
      hi == h.hi * 31 + (lo \div Half)
  IN  [ hi |-> hi % Half, lo |-> lo % Half ]

\* the loop for (i = first; i <= last; i++), run as its first half followed by
\* its second half; the test on `left` has the first half evaluated before the
\* second starts, which keeps the evaluation shallow
RECURSIVE HashLoop(_, _, _, _)
HashLoop(h, str, first, last) ==
  IF first > last THEN h
  ELSE IF first = last THEN HashStep(h, str[first])
  ELSE LET mid  == (first + last) \div 2
           left == HashLoop(h, str, first, mid)
       IN  IF left.lo >= 0 THEN HashLoop(left, str, mid + 1, last) ELSE left

\* the signed value of [hi, lo]
ToInt32(h) == (IF h.hi >= Half \div 2 THEN h.hi - Half ELSE h.hi) * Half + h.lo

simpleHash(str) == ToInt32(HashLoop([ hi |-> 0, lo |-> 0 ], str, 1, Len(str)))

\* Number.prototype.toString: the decimal digits, '-' first when negative
RECURSIVE Digits(_)
Digits(n) ==
  (IF n >= 10 THEN Digits(n \div 10) ELSE <<>>) \o << Code("0")[1] + (n % 10) >>

NumberToString(n) ==
  IF n >= 0 THEN Digits(n)
  ELSE Code("-") \o (IF n = -2147483647 - 1
                       THEN Digits(214748364) \o Digits(8)
                       ELSE Digits(-n))

(***************************************************************************)
(* SpecTraverse: traverse over a bounded set of documents                  *)
(***************************************************************************)
MaxNodes == 4

\* <<display, opacity>>
TravStyles == { <<"block", "1">>, <<"none", "1">>, <<"block", "0">> }

TravBodies ==
  { [ parent |-> 0, tagName |-> "BODY", id |-> "", display |-> d, opacity |-> "1" ] :
      d \in { "block", "none" } }

\* DIV in every style; an ignored tag, and the lower-case tag of an SVG <style>,
\* in one
TravElements(i) ==
  { [ parent |-> p, tagName |-> t, id |-> "", display |-> s[1], opacity |-> s[2] ] :
      p \in 1..(i - 1), t \in { "DIV" }, s \in TravStyles }
  \cup
  { [ parent |-> p, tagName |-> "style", id |-> "", display |-> "block", opacity |-> "1" ] :
      p \in 1..(i - 1) }
  \cup
  { [ parent |-> p, tagName |-> t, id |-> "", display |-> "block", opacity |-> "1" ] :
      p \in 1..(i - 1), t \in IgnoredTags }

TravInit ==
  /\ travDoc \in { Some(<<b>>) : b \in TravBodies }
  /\ travTree = None
  /\ ExtIdle /\ NetIdle
  /\ SnapIdle

\* the page appends an element to the document
AppendElement ==
  /\ travTree = None
  /\ Len(travDoc[1]) < MaxNodes
  /\ \E e \in TravElements(Len(travDoc[1]) + 1) :
       travDoc' = Some(Append(travDoc[1], e))
  /\ UNCHANGED <<travTree, extVars, netVars, snapVars>>

\* const tree = traverse(document.body)
CallTraverse ==
  /\ travTree = None
  /\ travTree' = Some(traverse(travDoc[1], 1))
  /\ UNCHANGED <<travDoc, extVars, netVars, snapVars>>

TravNext == AppendElement \/ CallTraverse

SpecTraverse == TravInit /\ [][TravNext]_vars

\* the elements a tree holds a node for
RECURSIVE NodesOf(_)
NodesOf(nodes) ==
  IF nodes = <<>> THEN {}
  ELSE { Head(nodes).el } \cup NodesOf(Head(nodes).children) \cup NodesOf(Tail(nodes))

\* every node of the tree lists as children exactly the nodes of its element's
\* unpruned children, in document order
RECURSIVE ChildrenAgree(_, _, _)
ChildrenAgree(doc, nodes, prunedSet) ==
  \A k \in 1..Len(nodes) :
    /\ [ c \in 1..Len(nodes[k].children) |-> nodes[k].children[c].el ]
         = Ascending(ChildrenOf(doc, nodes[k].el) \ prunedSet)
    /\ ChildrenAgree(doc, nodes[k].children, prunedSet)

\* the claim's pruning rule, element by element
C9_Pruned(e) == e.tagName \in IgnoredTags \/ e.display = "none"

\* the elements that are not pruned and have no pruned ancestor
RECURSIVE C9_Kept(_, _)
C9_Kept(doc, i) ==
  /\ ~C9_Pruned(doc[i])
  /\ doc[i].parent # 0 => C9_Kept(doc, doc[i].parent)

\* C9: the tree traverse returns holds a node for exactly the elements that are
\* neither pruned (tag in the ignored set, or display none) nor below a pruned
\* element, nested as in the document; opacity does not prune.
C9_PrunedSubtrees ==
  travTree # None =>
    LET doc  == travDoc[1]
        tree == travTree[1]
    IN  /\ NodesOf(tree) = { i \in 1..Len(doc) : C9_Kept(doc, i) }
        /\ ChildrenAgree(doc, tree, { i \in 1..Len(doc) : C9_Pruned(doc[i]) })

\* C9 witness: a SCRIPT was dropped together with its visible child, while a
\* sibling with opacity 0 was kept
C9_Witness ==
  /\ travDoc # None /\ travTree # None /\ Len(travDoc[1]) = 4
  /\ travDoc[1][2].tagName = "DIV" /\ travDoc[1][2].opacity = "0"
  /\ travDoc[1][2].display = "block" /\ travDoc[1][2].parent = 1
  /\ travDoc[1][3].tagName = "SCRIPT" /\ travDoc[1][3].parent = 1
  /\ travDoc[1][4].tagName = "DIV" /\ travDoc[1][4].display = "block"
  /\ travDoc[1][4].parent = 3
  /\ NodesOf(travTree[1]) = { 1, 2 }

(***************************************************************************)
(* SpecSnap: the sampler in the page and saveSnapshot on the host          *)
(*                                                                         *)
(* One sampler instance (one loaded document).  Time: the timer callback   *)
(* runs every IntervalMs; the host handles a saveSnapshot call within      *)
(* MaxLatency ms of the tick that sent it, which is less than a period, so *)
(* a tick finds the channel empty.                                         *)
(***************************************************************************)
IntervalMs == 2000
MaxCycles  == 3
MaxLatency == 1

\* crypto.createHash('md5').update(data).digest('hex'), idealised: two digests
\* are equal exactly when the data are
md5Hex(data) == [ digestOf |-> data ]

\* .substring(0, 8) of a digest, idealised the same way
First8(digest) == [ first8Of |-> digest ]

\* mutant: the file name carries only the hash
SnapshotName_hashOnly(timestamp, hash) == [ timestamp |-> 0, hash |-> hash ]

\* `snapshot_${timestamp}_${hash}.json`
SnapshotName(timestamp, hash) == [ timestamp |-> timestamp, hash |-> hash ]

\* a directory with one file written (created or overwritten)
WithFile(dir, name, content) ==
  [ n \in DOMAIN dir \cup { name } |-> IF n = name THEN content ELSE dir[n] ]

SnapIds == { "Aa", "BB", "C" }

SnapDoc(bodyDisplay, id) ==
  << [ parent |-> 0, tagName |-> "BODY", id |-> "", display |-> bodyDisplay, opacity |-> "1" ],
     [ parent |-> 1, tagName |-> "DIV", id |-> id, display |-> "block", opacity |-> "1" ] >>

SnapDocs == { SnapDoc("block", id) : id \in SnapIds } \cup { SnapDoc("none", "C") }

SnapInit ==
  /\ document = None /\ lastHash = Code("") /\ channel = <<>> /\ clock = 0
  /\ snapshots = <<>> /\ snapshotSaved = 0 /\ cycles = 0 /\ lastSampled = None
  /\ ExtIdle /\ NetIdle
  /\ TravIdle

\* the page (the game) changes its DOM
Mutate ==
  /\ \E d \in SnapDocs : document' = Some(d)
  /\ document' # document
  /\ UNCHANGED <<lastHash, channel, clock, snapshots, snapshotSaved, cycles, lastSampled>>
  /\ UNCHANGED <<extVars, netVars, travVars>>

\* mutant: every sample is forwarded
ShouldForward_always(currentHash, last) == TRUE

\* currentHash !== lastHash
ShouldForward(currentHash, last) == currentHash # last

\* the setInterval callback
Cycle ==
  /\ cycles < MaxCycles
  /\ channel = <<>>
  /\ cycles' = cycles + 1
  /\ clock' = clock + IntervalMs
  /\ IF document = None
       THEN UNCHANGED <<lastHash, channel, lastSampled>>
       ELSE LET tree == traverse(document[1], 1) IN
            IF tree = None
              THEN UNCHANGED <<lastHash, channel, lastSampled>>
              ELSE LET jsonString  == Stringify(tree[1])
                       currentHash == NumberToString(simpleHash(jsonString))
                   IN  /\ lastSampled' = Some(jsonString)
                       /\ IF ShouldForward(currentHash, lastHash)
                            THEN /\ lastHash' = currentHash
                                 /\ channel' = Append(channel, jsonString)
                            ELSE UNCHANGED <<lastHash, channel>>
  /\ UNCHANGED <<document, snapshots, snapshotSaved>>
  /\ UNCHANGED <<extVars, netVars, travVars>>

\* saveSnapshot(jsonString) on the host; writeFileSync succeeds
SaveSnapshot ==
  /\ channel # <<>>
  /\ \E latency \in 0..MaxLatency :
       LET jsonString == Head(channel)
           timestamp  == clock + latency
           hash       == First8(md5Hex(jsonString))
           filename   == SnapshotName(timestamp, hash)
       IN  /\ snapshots' = WithFile(snapshots, filename, jsonString)
           /\ snapshotSaved' = snapshotSaved + 1
  /\ channel' = Tail(channel)
  /\ UNCHANGED <<document, lastHash, clock, cycles, lastSampled>>
  /\ UNCHANGED <<extVars, netVars, travVars>>

\* saveSnapshot(jsonString) on the host; writeFileSync throws and the catch
\* block logs the failure
SaveSnapshotFails ==
  /\ channel # <<>>
  /\ channel' = Tail(channel)
  /\ UNCHANGED <<document, lastHash, clock, snapshots, snapshotSaved, cycles, lastSampled>>
  /\ UNCHANGED <<extVars, netVars, travVars>>

SnapNext == Mutate \/ Cycle \/ SaveSnapshot \/ SaveSnapshotFails

SpecSnap == SnapInit /\ [][SnapNext]_vars

\* the string the sampler would build from the current document, None when
\* there is no body or the tree is null
CurrentJson ==
  IF document = None THEN None
  ELSE LET tree == traverse(document[1], 1)
       IN  IF tree = None THEN None ELSE Some(Stringify(tree[1]))

\* a timer callback that built a string
SampledStep == cycles' = cycles + 1 /\ CurrentJson # None

ForwardedStep == channel' = Append(channel, CurrentJson[1])

\* C3 as claimed: a cycle forwards its snapshot for writing exactly when its
\* tree differs from the tree of the previous snapshot.
C3_Original ==
  [][ SampledStep => (ForwardedStep <=> CurrentJson # lastSampled) ]_vars

\* C3 amended: a cycle forwards its snapshot exactly when simpleHash of its
\* string differs from simpleHash of the previous sampled string (always, for
\* the first); a tree identical to the previous one is never forwarded; the
\* host writes at most one file per forwarded snapshot, holding that snapshot.
C3_ChangeGate ==
  [][ /\ SampledStep =>
           /\ ForwardedStep <=>
                \/ lastSampled = None
                \/ simpleHash(CurrentJson[1]) # simpleHash(lastSampled[1])
           /\ CurrentJson = lastSampled => channel' = channel
           /\ ~ForwardedStep => channel' = channel
      /\ snapshots' # snapshots =>
           /\ channel # <<>> /\ channel' = Tail(channel)
           /\ \E n \in DOMAIN snapshots' \ DOMAIN snapshots :
                /\ DOMAIN snapshots' = DOMAIN snapshots \cup { n }
                /\ snapshots'[n] = Head(channel)
                /\ \A m \in DOMAIN snapshots : snapshots'[m] = snapshots[m]
    ]_vars

\* C3 witness: after a snapshot of the tree with id "Aa" was written, a cycle
\* sampled the tree with id "BB" (same simpleHash) and nothing more was written
C3_Witness ==
  /\ cycles = 2 /\ channel = <<>> /\ snapshotSaved = 1
  /\ lastSampled = Some(Stringify(traverse(SnapDoc("block", "BB"), 1)[1]))
  /\ \E n \in DOMAIN snapshots :
       snapshots[n] = Stringify(traverse(SnapDoc("block", "Aa"), 1)[1])

Dirs == { "textures", "scripts" }

\* response.ok()
Ok(response) == response.status >= 200 /\ response.status <= 299

\* `${hash}${ext}`
FileName(hash, ext) == [ hash |-> hash, ext |-> ext ]

\* obj[key] = value
Put(obj, key, value) ==
  [ k \in DOMAIN obj \cup { key } |-> IF k = key THEN value ELSE obj[k] ]

\* mutant: a record for a url already logged with the same type is dropped
logToStream_dedup(stream, data) ==
  IF \E i \in 1..Len(stream) : stream[i].type = data.type /\ stream[i].url = data.url
    THEN stream
    ELSE Append(stream, data)

\* stream.write(JSON.stringify(data) + '\n')
logToStream(stream, data) == Append(stream, data)

\* the driver emits events while the page is open
PageOpen == phase \in { "goto", "waiting" }

\* page.on('request')
OnRequest(request) ==
  /\ PageOpen
  /\ httpLogStream' = logToStream(httpLogStream,
       [ timestamp |-> now, type |-> "HTTP_REQUEST", method |-> request.method,
         url |-> request.url, headers |-> request.headers,
         postData |-> request.postData ])
  /\ events' = Append(events, [ kind |-> "request", url |-> request.url, at |-> now ])
  /\ UNCHANGED <<phase, now, wsLogStream, sockets, pending, files, assetMap,
                 assetsMapFile, mapWrites, saves, failed>>
  /\ UNCHANGED <<extVars, snapVars, travVars>>

\* page.on('response'): the record is logged, then saveFile is entered for an
\* ok image or script and suspends at `await response.body()`
OnResponse(response) ==
  /\ PageOpen
  /\ httpLogStream' = logToStream(httpLogStream,
       [ timestamp |-> now, type |-> "HTTP_RESPONSE", method |-> "GET",
         url |-> response.url, status |-> response.status,
         headers |-> IF response.contentType = NoValue THEN <<>>
                     ELSE [ h \in { "content-type" } |-> response.contentType ],
         contentType |-> response.contentType ])
  /\ events' = Append(events, [ kind |-> "response", url |-> response.url, at |-> now ])
  /\ pending' =
       IF Ok(response) /\ response.resourceType = "image"
         THEN pending \cup { [ seq |-> Len(events) + 1, response |-> response,
                               type |-> "image", dir |-> "textures" ] }
       ELSE IF Ok(response) /\ response.resourceType = "script"
         THEN pending \cup { [ seq |-> Len(events) + 1, response |-> response,
                               type |-> "script", dir |-> "scripts" ] }
       ELSE pending
  /\ UNCHANGED <<phase, now, wsLogStream, sockets, files, assetMap,
                 assetsMapFile, mapWrites, saves, failed>>
  /\ UNCHANGED <<extVars, snapVars, travVars>>

\* page.on('websocket'): the frame handlers are registered on the socket
OnWebSocket(wsUrl) ==
  /\ PageOpen
  /\ wsUrl \notin sockets
  /\ sockets' = sockets \cup { wsUrl }
  /\ UNCHANGED <<phase, now, httpLogStream, wsLogStream, pending, files, assetMap,
                 assetsMapFile, mapWrites, events, saves, failed>>
  /\ UNCHANGED <<extVars, snapVars, travVars>>

\* ws.on('framesent') and ws.on('framereceived')
OnFrame(wsUrl, direction, payload) ==
  /\ PageOpen
  /\ wsUrl \in sockets
  /\ wsLogStream' = logToStream(wsLogStream,
       [ timestamp |-> now,
         type |-> IF direction = "framesent" THEN "WS_SENT" ELSE "WS_RECEIVED",
         url |-> wsUrl, payload |-> payload ])
  /\ events' = Append(events, [ kind |-> direction, url |-> wsUrl, at |-> now ])
  /\ UNCHANGED <<phase, now, httpLogStream, sockets, pending, files, assetMap,
                 assetsMapFile, mapWrites, saves, failed>>
  /\ UNCHANGED <<extVars, snapVars, travVars>>

\* the process is alive and the browser can still answer response.body()
BrowserUp == phase \in { "goto", "waiting", "closed", "closing" }

\* mutant: the catch block rethrows, and the handler's rejection ends the process
CatchSaveError_rethrow(ph) == "crashed"

\* catch (e) { console.error(...) }: the main function is not affected
CatchSaveError(ph) == ph

\* saveFile resumed with the body: hash, extension, existence check, write,
\* asset map update
SaveFile(p) ==
  /\ p \in pending
  /\ BrowserUp
  /\ LET url      == p.response.url
         buffer   == p.response.body
         hash     == md5Hex(buffer)
         ext      == getExtension(p.response, p.type)
         filename == FileName(hash, ext)
         exists   == filename \in files[p.dir]
     IN  /\ files' = IF exists THEN files
                     ELSE [ files EXCEPT ![p.dir] = @ \cup { filename } ]
         /\ assetMap' = Put(assetMap, url, filename)
         /\ saves' = saves \cup { [ seq |-> p.seq, url |-> url, type |-> p.type,
                                    dir |-> p.dir, body |-> buffer,
                                    filename |-> filename, wrote |-> ~exists ] }
  /\ pending' = pending \ { p }
  /\ UNCHANGED <<phase, now, httpLogStream, wsLogStream, sockets, assetsMapFile,
                 mapWrites, events, failed>>
  /\ UNCHANGED <<extVars, snapVars, travVars>>

\* saveFile resumed with response.body() rejected (the body is gone, the page
\* or the browser closed): the catch block runs
SaveFileBodyFails(p) ==
  /\ p \in pending
  /\ phase # "crashed"
  /\ phase' = CatchSaveError(phase)
  /\ failed' = failed \cup { p.seq }
  /\ pending' = pending \ { p }
  /\ UNCHANGED <<now, httpLogStream, wsLogStream, sockets, files, assetMap,
                 assetsMapFile, mapWrites, events, saves>>
  /\ UNCHANGED <<extVars, snapVars, travVars>>

\* saveFile resumed with the body, the file is not there and fs.writeFileSync
\* throws: the catch block runs before the asset map is touched
SaveFileWriteFails(p) ==
  /\ p \in pending
  /\ BrowserUp
  /\ FileName(md5Hex(p.response.body), getExtension(p.response, p.type)) \notin files[p.dir]
  /\ phase' = CatchSaveError(phase)
  /\ failed' = failed \cup { p.seq }
  /\ pending' = pending \ { p }
  /\ UNCHANGED <<now, httpLogStream, wsLogStream, sockets, files, assetMap,
                 assetsMapFile, mapWrites, events, saves>>
  /\ UNCHANGED <<extVars, snapVars, travVars>>

lifecycleUnchanged ==
  /\ UNCHANGED <<now, httpLogStream, wsLogStream, sockets, pending, files, assetMap,
                 events, saves, failed>>
  /\ UNCHANGED <<extVars, snapVars, travVars>>

\* await page.goto(...) resolves
GotoDone ==
  /\ phase = "goto" /\ phase' = "waiting"
  /\ UNCHANGED <<assetsMapFile, mapWrites>> /\ lifecycleUnchanged

\* await page.goto(...) rejects: the main function rejects
GotoFails ==
  /\ phase = "goto" /\ phase' = "crashed"
  /\ UNCHANGED <<assetsMapFile, mapWrites>> /\ lifecycleUnchanged

\* the operator closes the window: the page emits 'close'
PageClose ==
  /\ phase = "waiting" /\ phase' = "closed"
  /\ UNCHANGED <<assetsMapFile, mapWrites>> /\ lifecycleUnchanged

\* mutant: the map is written without waiting for the close event
FlushPhase_early == "waiting"

\* the phase in which the main function reaches the write of assets_map.json
FlushPhase == "closed"

\* the main function resumes after waitForEvent: writes assets_map.json and
\* calls browser.close()
Flush ==
  /\ phase = FlushPhase /\ phase' = "closing"
  /\ assetsMapFile' = Some(assetMap)
  /\ mapWrites' = mapWrites + 1
  /\ lifecycleUnchanged

\* fs.writeFileSync(ASSETS_MAP_FILE, ...) throws: the main function rejects
FlushFails ==
  /\ phase = FlushPhase /\ phase' = "crashed"
  /\ UNCHANGED <<assetsMapFile, mapWrites>> /\ lifecycleUnchanged

\* the browser process exits
BrowserExits ==
  /\ phase = "closing" /\ phase' = "browserClosed"
  /\ UNCHANGED <<assetsMapFile, mapWrites>> /\ lifecycleUnchanged

\* the main function resumes after browser.close(): both streams are ended
EndStreams ==
  /\ phase = "browserClosed" /\ phase' = "ended"
  /\ UNCHANGED <<assetsMapFile, mapWrites>> /\ lifecycleUnchanged

\* the wall clock advances
Tick ==
  /\ now' = now + 1
  /\ UNCHANGED <<phase, httpLogStream, wsLogStream, sockets, pending, files, assetMap,
                 assetsMapFile, mapWrites, events, saves, failed>>
  /\ UNCHANGED <<extVars, snapVars, travVars>>

NetInit ==
  /\ phase = "goto" /\ now = 0 /\ httpLogStream = <<>> /\ wsLogStream = <<>>
  /\ sockets = {} /\ pending = {}
  /\ files = [ d \in Dirs |-> {} ]
  /\ assetMap = <<>> /\ assetsMapFile = None /\ mapWrites = 0
  /\ events = <<>> /\ saves = {} /\ failed = {}
  /\ ExtIdle /\ SnapIdle /\ TravIdle

(***************************************************************************)
(* SpecCapture: responses, saveFile, the asset map and the shutdown        *)
(***************************************************************************)
MaxResponses == 2

Url(pathname) == [ pathname |-> pathname, search |-> "" ]

CaptureUrls == { Url("/a.png"), Url("/b.jpg") }

\* two response bodies, as byte strings
CaptureBodies == { <<1>>, <<2>> }

\* every ok image response over two urls, two content-types and two bodies; ok
\* script responses carrying the first body; one response that is not ok and one
\* of an untracked resource type
CaptureResponses ==
  [ url : CaptureUrls, status : { 200 }, contentType : { NoValue, "image/webp" },
    resourceType : { "image" }, body : CaptureBodies ]
  \cup
  [ url : CaptureUrls, status : { 200 }, contentType : { NoValue },
    resourceType : { "script" }, body : { <<1>> } ]
  \cup
  { [ url |-> Url("/a.png"), status |-> 404, contentType |-> NoValue,
      resourceType |-> "image", body |-> <<1>> ],
    [ url |-> Url("/b.jpg"), status |-> 200, contentType |-> NoValue,
      resourceType |-> "xhr", body |-> <<2>> ] }

CaptureResponse ==
  /\ Len(events) < MaxResponses
  /\ \E response \in CaptureResponses : OnResponse(response)

ResumeSaveFile       == \E p \in pending : SaveFile(p)
ResumeBodyFails      == \E p \in pending : SaveFileBodyFails(p)
ResumeWriteFails     == \E p \in pending : SaveFileWriteFails(p)

CaptureNext ==
  \/ CaptureResponse
  \/ ResumeSaveFile
  \/ ResumeBodyFails
  \/ ResumeWriteFails
  \/ GotoDone
  \/ GotoFails
  \/ PageClose
  \/ Flush
  \/ FlushFails
  \/ BrowserExits
  \/ EndStreams

SpecCapture == NetInit /\ [][CaptureNext]_vars

\* C1 as claimed: a category directory never holds two files of the same
\* content hash.
C1_OneFilePerHash ==
  \A d \in DOMAIN files :
    \A f1, f2 \in files[d] : f1.hash = f2.hash => f1 = f2

\* C2 as claimed: every saveFile call that ran to its end left its url in the
\* asset map, and two urls that delivered the same bytes in the same category
\* point at the same file name.
C2_SameBytesSameName ==
  /\ \A s \in saves : s.url \in DOMAIN assetMap
  /\ \A s1, s2 \in saves :
       s1.url # s2.url /\ s1.dir = s2.dir /\ s1.body = s2.body
         => assetMap[s1.url] = assetMap[s2.url]

C8_FlushOnceAtClose ==
  [][ /\ (mapWrites' # mapWrites \/ assetsMapFile' # assetsMapFile) =>
           /\ phase = "closed" /\ phase' = "closing"
           /\ mapWrites = 0 /\ mapWrites' = 1
           /\ assetsMapFile = None /\ assetsMapFile' = Some(assetMap)
      /\ phase' \in { "browserClosed", "ended" } => mapWrites' = 1
    ]_vars

\* C8 witness: a run that ended normally with a non-empty map written once
C8_Witness ==
  /\ phase = "ended" /\ mapWrites = 1
  /\ assetsMapFile # None /\ DOMAIN assetsMapFile[1] # {}

\* C10 as claimed: once assets_map.json is written, every file saveFile wrote
\* in the run has its response's url in it, mapped to the file's name.
C10_WrittenFilesAreMapped ==
  assetsMapFile # None =>
    \A s \in saves :
      s.wrote => /\ s.url \in DOMAIN assetsMapFile[1]
                 /\ assetsMapFile[1][s.url] = s.filename

(***************************************************************************)
(* SpecLog: the HTTP and WebSocket event logger                            *)
(***************************************************************************)
MaxEvents == 3
MaxClock  == 2

LogRequests ==
  { [ url |-> Url("/a.png"), method |-> "GET", headers |-> <<>>, postData |-> NoValue ],
    [ url |-> Url("/c"), method |-> "POST", headers |-> <<>>, postData |-> "x=1" ] }

LogResponses ==
  { [ url |-> Url("/a.png"), status |-> 200, contentType |-> "image/png",
      resourceType |-> "image", body |-> <<1>> ],
    [ url |-> Url("/c"), status |-> 200, contentType |-> "text/html",
      resourceType |-> "xhr", body |-> <<2>> ] }

LogSockets == { "wss://skazka.mobi/ws" }

LogTick == now < MaxClock /\ Tick

LogRequest ==
  /\ Len(events) < MaxEvents
  /\ \E request \in LogRequests : OnRequest(request)

LogResponse ==
  /\ Len(events) < MaxEvents
  /\ \E response \in LogResponses : OnResponse(response)

LogWebSocket == \E wsUrl \in LogSockets : OnWebSocket(wsUrl)

LogFrame ==
  /\ Len(events) < MaxEvents
  /\ \E wsUrl \in LogSockets, direction \in { "framesent", "framereceived" } :
       OnFrame(wsUrl, direction, "payload")

LogNext ==
  \/ LogTick
  \/ LogRequest
  \/ LogResponse
  \/ LogWebSocket
  \/ LogFrame
  \/ ResumeSaveFile
  \/ ResumeBodyFails
  \/ ResumeWriteFails

\* the logger is followed from the moment page.goto has resolved
LogInit ==
  /\ phase = "waiting" /\ now = 0 /\ httpLogStream = <<>> /\ wsLogStream = <<>>
  /\ sockets = {} /\ pending = {}
  /\ files = [ d \in Dirs |-> {} ]
  /\ assetMap = <<>> /\ assetsMapFile = None /\ mapWrites = 0
  /\ events = <<>> /\ saves = {} /\ failed = {}
  /\ ExtIdle /\ SnapIdle /\ TravIdle

SpecLog == LogInit /\ [][LogNext]_vars

IsHttpEvent(e) == e.kind \in { "request", "response" }
IsFrameEvent(e) == e.kind \in { "framesent", "framereceived" }

\* the record type the claim expects for each kind of event
C4_TypeOf(kind) ==
  CASE kind = "request"       -> "HTTP_REQUEST"
    [] kind = "response"      -> "HTTP_RESPONSE"
    [] kind = "framesent"     -> "WS_SENT"
    [] kind = "framereceived" -> "WS_RECEIVED"

C4_Matches(stream, delivered) ==
  /\ Len(stream) = Len(delivered)
  /\ \A i \in 1..Len(stream) :
       /\ stream[i].type = C4_TypeOf(delivered[i].kind)
       /\ stream[i].url = delivered[i].url
       /\ stream[i].timestamp = delivered[i].at
  /\ \A i, j \in 1..Len(stream) : i <= j => stream[i].timestamp <= stream[j].timestamp

\* C4: http_log.jsonl holds one record per delivered request or response and
\* websocket_log.jsonl one per delivered frame, each stream in delivery order
\* with non-decreasing timestamps, whatever handlers are still suspended.
C4_OneRecordPerEventInOrder ==
  /\ C4_Matches(httpLogStream, SelectSeq(events, IsHttpEvent))
  /\ C4_Matches(wsLogStream, SelectSeq(events, IsFrameEvent))

\* C4 witness: while the handler of the first response is still awaiting its
\* body, a later request and a frame were delivered and logged
C4_Witness ==
  /\ \E p \in pending : p.seq = 1
  /\ Len(httpLogStream) = 2 /\ httpLogStream[2].type = "HTTP_REQUEST"
  /\ httpLogStream[1].timestamp < httpLogStream[2].timestamp
  /\ Len(wsLogStream) = 1

====
